---- MODULE Spec2Model ----
(***************************************************************************)
(* Image QC review workflow: the write path (toggle_status, toggle_issue), *)
(* the read-side merge (get_images) of backend/api/index.py, and the       *)
(* replication trigger (firestore_to_bigquery) of backend/pipeline/main.py.*)
(*                                                                         *)
(* Each API worker is one server process handling one request at a time;   *)
(* the workers share the document store (qc_current_state, qc_event_log).  *)
(* Optional values are modelled as sequences: <<>> is None, <<v>> is v.    *)
(***************************************************************************)
EXTENDS Integers, Sequences, FiniteSets, TLC

\* ---------------------------------------------------------------- bounds
NumWorkers == 2
MaxToggles == 3
MaxReads == 1
MaxAttempts == 2
MaxInvocations == 3
MaxReplicated == 2
MaxDuplicates == 1

Workers == 1..NumWorkers

\* ------------------------------------------------------ program constants
ISSUE_KEYS ==
    {"image_blur", "cropped_image", "mrp_present_in_image", "image_quality", "aspect_ratio"}

limit == 100

None == <<>>
Some(v) == <<v>>

\* ------------------------------------------------------------ input sets
PvidInputs == {"P1"}
IndexInputs == {1, 2, 3}
IssueIndexInputs == {1}
IssueKeyInputs == {"image_blur", "not_an_issue"}
ActorOf(p) == "w" \o ToString(p) \o "@qc.example"

ToggleRequests(p) ==
    [kind : {"status"}, product_variant_id : PvidInputs, image_index : IndexInputs,
     actor : {ActorOf(p)}]

\* Requests on two images, with two of the issue keys on the first
FrameIndexInputs == {1, 2}
FrameIssueKeyInputs == {"image_blur", "cropped_image"}

FrameToggleRequests(p) ==
    [kind : {"status"}, product_variant_id : PvidInputs, image_index : FrameIndexInputs,
     actor : {ActorOf(p)}]

FrameIssueToggleRequests(p) ==
    [kind : {"issue"}, product_variant_id : PvidInputs, image_index : IssueIndexInputs,
     actor : {ActorOf(p)}, issue_key : FrameIssueKeyInputs, value : BOOLEAN]

IssueToggleRequests(p) ==
    [kind : {"issue"}, product_variant_id : PvidInputs, image_index : IssueIndexInputs,
     actor : {ActorOf(p)}, issue_key : IssueKeyInputs, value : BOOLEAN]

\* ----------------------------------------------------------------- state
VARIABLES
    fs_client,          \* per worker: "uninit", "client" or "none" (_fs_client/_fs_initialized)
    pc,                 \* per worker: "idle", "txn" (about to run the transactional body), "commit"
    req,                \* per worker: the toggle request being handled (NoReq when idle)
    txn,                \* per worker: locals of the running toggle and its buffered transaction
    done,               \* the last finished exchange: [worker, req, resp, attempts]
    qc_current_state,   \* doc id -> [data, update_time] (collection qc_current_state)
    qc_event_log,       \* the event documents, in commit order (collection qc_event_log)
    uuid_count,         \* number of uuid4() ids drawn so far
    utcnow,             \* the wall clock read by datetime.utcnow()
    ntoggles,           \* toggle requests received so far
    nreads,             \* get_images requests received so far
    bq_client,          \* pipeline: "client" or "none" (module-level bq_client)
    sink,               \* pipeline: the rows of the analytical table, in insert order
    invocation,         \* pipeline: the last trigger invocation [data, errors, outcome]
    ninvocations,       \* pipeline: trigger invocations so far
    acked,              \* pipeline: ids of the events whose change notification was
                        \* acknowledged (an invocation on it returned)
    in_document,        \* codec: the tagged document handed to parse_firestore_document
    out_parsed,         \* codec: doc_data, the result of parse_firestore_document
    out_row,            \* codec: the result of transform_to_bq_row
    codec_pc            \* codec: "idle", "input", "parsed", "raised" or "row"

api_vars == <<fs_client, pc, req, txn, done, qc_current_state, qc_event_log,
              uuid_count, utcnow, ntoggles, nreads>>

codec_vars == <<in_document, out_parsed, out_row, codec_pc>>

pipeline_vars == <<bq_client, sink, invocation, ninvocations, acked, codec_vars>>

vars == <<api_vars, pipeline_vars>>

store == <<qc_current_state, qc_event_log>>

NoReq == [kind |-> "none"]
NoTxn == [attempt |-> 0]
NoDone == [worker |-> 0, req |-> NoReq, resp |-> [code |-> 0], attempts |-> 0]

\* --------------------------------------------------------------- helpers
get_firestore_doc_id(pvid, image_index) == pvid \o "__" \o ToString(image_index)

\* get_fs_client(): the outcomes of the lazily initialised client of worker p
get_fs_client(p) ==
    IF fs_client[p] = "uninit" THEN {"client", "none"} ELSE {fs_client[p]}

\* dict.get(key, default)
Get(d, k, default) == IF k \in DOMAIN d THEN d[k] ELSE default

\* doc_ref.get(transaction=...): the snapshot of a document of qc_current_state
Snapshot(did) ==
    IF did \in DOMAIN qc_current_state
    THEN [exists |-> TRUE, data |-> qc_current_state[did].data,
          update_time |-> qc_current_state[did].update_time]
    ELSE [exists |-> FALSE, data |-> <<>>, update_time |-> 0]

\* Mutant of MergeData: the document is replaced by the listed fields
MergeData_replace(old, fields) == fields

\* transaction.set(doc_ref, fields, merge=True) on the data of a document:
\* listed fields are overwritten, a nested map is merged key by key, the
\* other fields are preserved
MergeData(old, fields) ==
    [k \in DOMAIN old \cup DOMAIN fields |->
        IF k \notin DOMAIN fields THEN old[k]
        ELSE IF k = "issues" /\ k \in DOMAIN old THEN fields[k] @@ old[k]
        ELSE fields[k]]

SetMerge(coll, did, fields) ==
    IF did \in DOMAIN coll
    THEN [coll EXCEPT ![did] = [data |-> MergeData(coll[did].data, fields),
                                update_time |-> coll[did].update_time + 1]]
    ELSE coll @@ (did :> [data |-> fields, update_time |-> 1])

\* transaction.set(log_ref, event): create or overwrite the document event_id
SetEvent(log, ev) ==
    IF \E i \in 1..Len(log) : log[i].event_id = ev.event_id
    THEN [i \in 1..Len(log) |-> IF log[i].event_id = ev.event_id THEN ev ELSE log[i]]
    ELSE Append(log, ev)

\* ------------------------------------------------------------------ Init
InitApi ==
    /\ fs_client = [p \in Workers |-> "uninit"]
    /\ pc = [p \in Workers |-> "idle"]
    /\ req = [p \in Workers |-> NoReq]
    /\ txn = [p \in Workers |-> NoTxn]
    /\ done = NoDone
    /\ qc_current_state = <<>>
    /\ qc_event_log = <<>>
    /\ uuid_count = 0
    /\ utcnow = 0
    /\ ntoggles = 0
    /\ nreads = 0

NoInvocation == [outcome |-> "none"]

Init ==
    /\ InitApi
    /\ bq_client = "client"
    /\ sink = <<>>
    /\ invocation = NoInvocation
    /\ ninvocations = 0
    /\ acked = {}
    /\ in_document = <<>> /\ out_parsed = <<>> /\ out_row = <<>> /\ codec_pc = "idle"

\* ------------------------------------------------------------ write path
\* A finished exchange of worker p: the response leaves the handler
Respond(p, r, response) ==
    done' = [worker |-> p, req |-> r, resp |-> response, attempts |-> txn[p].attempt]

\* The handler raises HTTPException(code) before anything was started
Reject(p, r, code) ==
    /\ Respond(p, r, [code |-> code])
    /\ UNCHANGED <<pc, req, txn, uuid_count, utcnow>>

\* event_id = str(uuid.uuid4()); event_ts = datetime.utcnow(); the
\* transaction is created and its first attempt is about to run
\* Mutant of Begin: every request draws the same event id
Begin_same_id(p, r) ==
    /\ req' = [req EXCEPT ![p] = r]
    /\ txn' = [txn EXCEPT ![p] = [attempt |-> 1, event_id |-> 1,
                                  event_ts |-> utcnow]]
    /\ uuid_count' = uuid_count + 1
    /\ utcnow' = utcnow + 1
    /\ pc' = [pc EXCEPT ![p] = "txn"]
    /\ UNCHANGED done

Begin(p, r) ==
    /\ req' = [req EXCEPT ![p] = r]
    /\ txn' = [txn EXCEPT ![p] = [attempt |-> 1, event_id |-> uuid_count + 1,
                                  event_ts |-> utcnow]]
    /\ uuid_count' = uuid_count + 1
    /\ utcnow' = utcnow + 1
    /\ pc' = [pc EXCEPT ![p] = "txn"]
    /\ UNCHANGED done

\* Mutant of toggle_status: the read-only check is missing
toggle_status_no_fs_check(p) ==
    /\ pc[p] = "idle"
    /\ ntoggles < MaxToggles
    /\ ntoggles' = ntoggles + 1
    /\ \E r \in ToggleRequests(p), fs \in get_fs_client(p) :
        /\ fs_client' = [fs_client EXCEPT ![p] = fs]
        /\ Begin(p, r)
    /\ UNCHANGED <<qc_current_state, qc_event_log, nreads, pipeline_vars>>

\* POST /qc/toggle up to the start of the transaction, on one of the requests
toggle_status_of(p, requests) ==
    /\ pc[p] = "idle"
    /\ ntoggles < MaxToggles
    /\ ntoggles' = ntoggles + 1
    /\ \E r \in requests, fs \in get_fs_client(p) :
        /\ fs_client' = [fs_client EXCEPT ![p] = fs]
        /\ IF fs = "none" THEN Reject(p, r, 503) ELSE Begin(p, r)
    /\ UNCHANGED <<qc_current_state, qc_event_log, nreads, pipeline_vars>>

toggle_status(p) == toggle_status_of(p, ToggleRequests(p))

\* Mutant of toggle_issue: the issue_key check is missing
toggle_issue_unvalidated(p) ==
    /\ pc[p] = "idle"
    /\ ntoggles < MaxToggles
    /\ ntoggles' = ntoggles + 1
    /\ \E r \in IssueToggleRequests(p), fs \in get_fs_client(p) :
        /\ fs_client' = [fs_client EXCEPT ![p] = fs]
        /\ IF fs = "none" THEN Reject(p, r, 503) ELSE Begin(p, r)
    /\ UNCHANGED <<qc_current_state, qc_event_log, nreads, pipeline_vars>>

\* POST /qc/issues/toggle up to the start of the transaction
\* Mutant of toggle_issue_of: the issue key is validated before the store
\* client is looked at
toggle_issue_of_key_first(p, requests) ==
    /\ pc[p] = "idle"
    /\ ntoggles < MaxToggles
    /\ ntoggles' = ntoggles + 1
    /\ \E r \in requests, fs \in get_fs_client(p) :
        /\ fs_client' = [fs_client EXCEPT ![p] = fs]
        /\ IF r.issue_key \notin ISSUE_KEYS THEN Reject(p, r, 400)
           ELSE IF fs = "none" THEN Reject(p, r, 503)
           ELSE Begin(p, r)
    /\ UNCHANGED <<qc_current_state, qc_event_log, nreads, pipeline_vars>>

toggle_issue_of(p, requests) ==
    /\ pc[p] = "idle"
    /\ ntoggles < MaxToggles
    /\ ntoggles' = ntoggles + 1
    /\ \E r \in requests, fs \in get_fs_client(p) :
        /\ fs_client' = [fs_client EXCEPT ![p] = fs]
        /\ IF fs = "none" THEN Reject(p, r, 503)
           ELSE IF r.issue_key \notin ISSUE_KEYS THEN Reject(p, r, 400)
           ELSE Begin(p, r)
    /\ UNCHANGED <<qc_current_state, qc_event_log, nreads, pipeline_vars>>

toggle_issue(p) == toggle_issue_of(p, IssueToggleRequests(p))

\* Mutant of StatusWrites: the status is set to REVIEWED instead of flipped
StatusWrites_set(r, t, snapshot) ==
    LET current_status ==
            IF snapshot.exists THEN Get(snapshot.data, "review_status", "NOT_REVIEWED")
            ELSE "NOT_REVIEWED"
        new_status == "REVIEWED"
    IN  [state |-> [product_variant_id |-> r.product_variant_id,
                    image_index |-> r.image_index,
                    review_status |-> new_status,
                    updated_by |-> r.actor,
                    updated_at |-> t.event_ts],
         event |-> [event_id |-> t.event_id,
                    event_ts |-> t.event_ts,
                    event_type |-> "STATUS_CHANGE",
                    product_variant_id |-> r.product_variant_id,
                    image_index |-> r.image_index,
                    old_status |-> current_status,
                    new_status |-> new_status,
                    actor |-> r.actor],
         ret |-> Some(new_status)]

\* Mutant of StatusWrites: an image that is un-reviewed gets a status outside
\* the two-value vocabulary
StatusWrites_unreviewed(r, t, snapshot) ==
    LET current_status ==
            IF snapshot.exists THEN Get(snapshot.data, "review_status", "NOT_REVIEWED")
            ELSE "NOT_REVIEWED"
        new_status == IF current_status = "NOT_REVIEWED" THEN "REVIEWED" ELSE "UNREVIEWED"
    IN  [state |-> [product_variant_id |-> r.product_variant_id,
                    image_index |-> r.image_index,
                    review_status |-> new_status,
                    updated_by |-> r.actor,
                    updated_at |-> t.event_ts],
         event |-> [event_id |-> t.event_id,
                    event_ts |-> t.event_ts,
                    event_type |-> "STATUS_CHANGE",
                    product_variant_id |-> r.product_variant_id,
                    image_index |-> r.image_index,
                    old_status |-> current_status,
                    new_status |-> new_status,
                    actor |-> r.actor],
         ret |-> Some(new_status)]

\* The body of toggle_status.update_in_transaction on a snapshot: the
\* buffered writes and the returned value
StatusWrites(r, t, snapshot) ==
    LET current_status ==
            IF snapshot.exists THEN Get(snapshot.data, "review_status", "NOT_REVIEWED")
            ELSE "NOT_REVIEWED"
        new_status == IF current_status = "NOT_REVIEWED" THEN "REVIEWED" ELSE "NOT_REVIEWED"
    IN  [state |-> [product_variant_id |-> r.product_variant_id,
                    image_index |-> r.image_index,
                    review_status |-> new_status,
                    updated_by |-> r.actor,
                    updated_at |-> t.event_ts],
         event |-> [event_id |-> t.event_id,
                    event_ts |-> t.event_ts,
                    event_type |-> "STATUS_CHANGE",
                    product_variant_id |-> r.product_variant_id,
                    image_index |-> r.image_index,
                    old_status |-> current_status,
                    new_status |-> new_status,
                    actor |-> r.actor],
         ret |-> Some(new_status)]

\* Mutant of IssueWrites: the flag is flipped, the requested value ignored
IssueWrites_flip(r, t, snapshot) ==
    LET current_status ==
            IF snapshot.exists THEN Get(snapshot.data, "review_status", "NOT_REVIEWED")
            ELSE "NOT_REVIEWED"
        read_issues == IF snapshot.exists THEN Get(snapshot.data, "issues", <<>>) ELSE <<>>
        old_value == Get(read_issues, r.issue_key, FALSE)
        new_value == ~old_value
        current_issues == (r.issue_key :> new_value) @@ read_issues
    IN  [state |-> [product_variant_id |-> r.product_variant_id,
                    image_index |-> r.image_index,
                    review_status |-> current_status,
                    issues |-> current_issues,
                    updated_by |-> r.actor,
                    updated_at |-> t.event_ts],
         event |-> [event_id |-> t.event_id,
                    event_ts |-> t.event_ts,
                    event_type |-> "ISSUE_CHANGE",
                    product_variant_id |-> r.product_variant_id,
                    image_index |-> r.image_index,
                    issue_key |-> r.issue_key,
                    old_issue_value |-> old_value,
                    new_issue_value |-> new_value,
                    issues_snapshot |-> current_issues,
                    actor |-> r.actor],
         ret |-> None]

\* Mutant of IssueWrites: the state write resets review_status
IssueWrites_reset_status(r, t, snapshot) ==
    LET read_issues == IF snapshot.exists THEN Get(snapshot.data, "issues", <<>>) ELSE <<>>
        old_value == Get(read_issues, r.issue_key, FALSE)
        new_value == r.value
        current_issues == (r.issue_key :> new_value) @@ read_issues
    IN  [state |-> [product_variant_id |-> r.product_variant_id,
                    image_index |-> r.image_index,
                    review_status |-> "NOT_REVIEWED",
                    issues |-> current_issues,
                    updated_by |-> r.actor,
                    updated_at |-> t.event_ts],
         event |-> [event_id |-> t.event_id,
                    event_ts |-> t.event_ts,
                    event_type |-> "ISSUE_CHANGE",
                    product_variant_id |-> r.product_variant_id,
                    image_index |-> r.image_index,
                    issue_key |-> r.issue_key,
                    old_issue_value |-> old_value,
                    new_issue_value |-> new_value,
                    issues_snapshot |-> current_issues,
                    actor |-> r.actor],
         ret |-> None]

\* Mutant of IssueWrites: the event carries the issues map read from the
\* snapshot
IssueWrites_stale_snapshot(r, t, snapshot) ==
    LET current_status ==
            IF snapshot.exists THEN Get(snapshot.data, "review_status", "NOT_REVIEWED")
            ELSE "NOT_REVIEWED"
        read_issues == IF snapshot.exists THEN Get(snapshot.data, "issues", <<>>) ELSE <<>>
        old_value == Get(read_issues, r.issue_key, FALSE)
        new_value == r.value
        current_issues == (r.issue_key :> new_value) @@ read_issues
    IN  [state |-> [product_variant_id |-> r.product_variant_id,
                    image_index |-> r.image_index,
                    review_status |-> current_status,
                    issues |-> current_issues,
                    updated_by |-> r.actor,
                    updated_at |-> t.event_ts],
         event |-> [event_id |-> t.event_id,
                    event_ts |-> t.event_ts,
                    event_type |-> "ISSUE_CHANGE",
                    product_variant_id |-> r.product_variant_id,
                    image_index |-> r.image_index,
                    issue_key |-> r.issue_key,
                    old_issue_value |-> old_value,
                    new_issue_value |-> new_value,
                    issues_snapshot |-> read_issues,
                    actor |-> r.actor],
         ret |-> None]

\* The body of toggle_issue.update_in_transaction on a snapshot
IssueWrites(r, t, snapshot) ==
    LET current_status ==
            IF snapshot.exists THEN Get(snapshot.data, "review_status", "NOT_REVIEWED")
            ELSE "NOT_REVIEWED"
        read_issues == IF snapshot.exists THEN Get(snapshot.data, "issues", <<>>) ELSE <<>>
        old_value == Get(read_issues, r.issue_key, FALSE)
        new_value == r.value
        current_issues == (r.issue_key :> new_value) @@ read_issues
    IN  [state |-> [product_variant_id |-> r.product_variant_id,
                    image_index |-> r.image_index,
                    review_status |-> current_status,
                    issues |-> current_issues,
                    updated_by |-> r.actor,
                    updated_at |-> t.event_ts],
         event |-> [event_id |-> t.event_id,
                    event_ts |-> t.event_ts,
                    event_type |-> "ISSUE_CHANGE",
                    product_variant_id |-> r.product_variant_id,
                    image_index |-> r.image_index,
                    issue_key |-> r.issue_key,
                    old_issue_value |-> old_value,
                    new_issue_value |-> new_value,
                    issues_snapshot |-> current_issues,
                    actor |-> r.actor],
         ret |-> None]

DocIdOf(r) == get_firestore_doc_id(r.product_variant_id, r.image_index)

\* One attempt of the transactional function: read the snapshot, buffer the
\* two writes
update_in_transaction(p) ==
    /\ pc[p] = "txn"
    /\ LET snapshot == Snapshot(DocIdOf(req[p]))
           w == IF req[p].kind = "status" THEN StatusWrites(req[p], txn[p], snapshot)
                ELSE IssueWrites(req[p], txn[p], snapshot)
       IN  txn' = [txn EXCEPT ![p] =
                     [attempt |-> txn[p].attempt, event_id |-> txn[p].event_id,
                      event_ts |-> txn[p].event_ts, read_time |-> snapshot.update_time,
                      writes |-> w]]
    /\ pc' = [pc EXCEPT ![p] = "commit"]
    /\ UNCHANGED <<fs_client, req, done, qc_current_state, qc_event_log,
                   uuid_count, utcnow, ntoggles, nreads, pipeline_vars>>

\* The response the handler builds after the transaction returned
ToggleResponse(p) ==
    IF req[p].kind = "status"
    THEN [code |-> 200, new_status |-> txn[p].writes.ret[1], event_id |-> txn[p].event_id]
    ELSE [code |-> 200, status |-> "ok", event_id |-> txn[p].event_id]

\* Mutant of Unchanged: the commit does not detect a concurrent write
Unchanged_unchecked(p) == txn[p].read_time >= 0

\* The document read by the attempt was not written since
Unchanged(p) == Snapshot(DocIdOf(req[p])).update_time = txn[p].read_time

\* The handler of worker p is over
Finish(p) ==
    /\ pc' = [pc EXCEPT ![p] = "idle"]
    /\ req' = [req EXCEPT ![p] = NoReq]
    /\ txn' = [txn EXCEPT ![p] = NoTxn]

\* Commit of the buffered writes: both documents are written in one step,
\* then the handler returns its response
commit(p) ==
    /\ pc[p] = "commit"
    /\ Unchanged(p)
    /\ qc_current_state' = SetMerge(qc_current_state, DocIdOf(req[p]), txn[p].writes.state)
    /\ qc_event_log' = SetEvent(qc_event_log, txn[p].writes.event)
    /\ Respond(p, req[p], ToggleResponse(p))
    /\ Finish(p)
    /\ UNCHANGED <<fs_client, uuid_count, utcnow, ntoggles, nreads, pipeline_vars>>

\* Mutant of retry: the event write of the aborted attempt is kept
retry_keeps_event(p) ==
    /\ pc[p] = "commit"
    /\ ~Unchanged(p)
    /\ txn[p].attempt < MaxAttempts
    /\ txn' = [txn EXCEPT ![p] = [attempt |-> txn[p].attempt + 1,
                                  event_id |-> txn[p].event_id,
                                  event_ts |-> txn[p].event_ts]]
    /\ pc' = [pc EXCEPT ![p] = "txn"]
    /\ qc_event_log' = SetEvent(qc_event_log, txn[p].writes.event)
    /\ UNCHANGED <<fs_client, req, done, qc_current_state, uuid_count, utcnow, ntoggles, nreads, pipeline_vars>>

\* Commit aborted on a conflict: the buffered writes are dropped and the
\* transactional function runs again, with the same event_id and event_ts
retry(p) ==
    /\ pc[p] = "commit"
    /\ ~Unchanged(p)
    /\ txn[p].attempt < MaxAttempts
    /\ txn' = [txn EXCEPT ![p] = [attempt |-> txn[p].attempt + 1,
                                  event_id |-> txn[p].event_id,
                                  event_ts |-> txn[p].event_ts]]
    /\ pc' = [pc EXCEPT ![p] = "txn"]
    /\ UNCHANGED <<fs_client, req, done, qc_current_state, qc_event_log,
                   uuid_count, utcnow, ntoggles, nreads, pipeline_vars>>

\* The transaction gives up (attempts exhausted) or the store raises: the
\* exception leaves the handler, nothing is written
fail(p) ==
    /\ pc[p] = "commit"
    /\ \/ ~Unchanged(p) /\ txn[p].attempt >= MaxAttempts
       \/ Unchanged(p)
    /\ Respond(p, req[p], [code |-> 500])
    /\ Finish(p)
    /\ UNCHANGED <<fs_client, qc_current_state, qc_event_log, uuid_count, utcnow, ntoggles, nreads, pipeline_vars>>

\* ------------------------------------------------------------- read path
\* The catalog table qc_image_source after the pushed-down filters, ordered
\* by product_variant_id; a row carries its ten image_url columns
Row(pvid, slots) ==
    [product_variant_id |-> pvid,
     image_url |-> [idx \in 1..10 |->
                      IF idx \in slots THEN Some(pvid \o "/" \o ToString(idx)) ELSE None]]

SmallTable == <<Row("P1", {1, 2, 3}), Row("P2", {})>>

BigTable ==
    [i \in 1..(limit + 1) |-> IF i = 1 THEN Row("P1", {1, 2, 3})
                              ELSE Row("Q" \o ToString(1000 + i), {})]

\* Tables of exactly one page and of one row less
ExactTable == SubSeq(BigTable, 1, limit)

ShortTable == SubSeq(BigTable, 1, limit - 1)

Table(name) ==
    IF name = "small" THEN SmallTable
    ELSE IF name = "exact" THEN ExactTable
    ELSE IF name = "short" THEN ShortTable
    ELSE BigTable

TableInputs == {"small"}
PagingTableInputs == {"big", "exact", "short"}
PageInputs == {1, 2}
StatusInputs == {None, Some("All"), Some("REVIEWED"), Some("NOT_REVIEWED")}

Min(a, b) == IF a < b THEN a ELSE b

\* SELECT ... ORDER BY product_variant_id LIMIT @limit OFFSET @offset
Query(table, page) ==
    LET offset == (page - 1) * limit
    IN  SubSeq(table, offset + 1, Min(offset + limit, Len(table)))

\* for idx in range(1, 11): the populated slots of a row
RowImages(row) ==
    LET idxs == SelectSeq([i \in 1..10 |-> i], LAMBDA i : row.image_url[i] # None)
    IN  [n \in 1..Len(idxs) |-> [image_index |-> idxs[n], image_url |-> row.image_url[idxs[n]][1]]]

\* pvid_items: the keys in insertion order, and the images list of a key
PvidOrder(rows) ==
    LET first == SelectSeq([i \in 1..Len(rows) |-> i],
                           LAMBDA i : \A j \in 1..(i - 1) :
                               rows[j].product_variant_id # rows[i].product_variant_id)
    IN  [n \in 1..Len(first) |-> rows[first[n]].product_variant_id]

RECURSIVE Flatten(_)
Flatten(seqs) == IF seqs = <<>> THEN <<>> ELSE Head(seqs) \o Flatten(Tail(seqs))

RawImages(rows, pvid) ==
    LET mine == SelectSeq([i \in 1..Len(rows) |-> i],
                          LAMBDA i : rows[i].product_variant_id = pvid)
    IN  Flatten([n \in 1..Len(mine) |-> RowImages(rows[mine[n]])])

\* Mutant of DocIds: the keys are collected without looking at the client
DocIds_any_client(rows, fs) ==
    UNION {{get_firestore_doc_id(rows[i].product_variant_id, idx) :
               idx \in {x \in 1..10 : rows[i].image_url[x] # None}} :
           i \in 1..Len(rows)}

\* doc_ids, as a set: collected only when the store client exists
DocIds(rows, fs) ==
    IF fs = "client"
    THEN UNION {{get_firestore_doc_id(rows[i].product_variant_id, idx) :
                    idx \in {x \in 1..10 : rows[i].image_url[x] # None}} :
                i \in 1..Len(rows)}
    ELSE {}

\* fs_map after the batch get: the existing documents among those consumed
\* from the result stream before it ended or raised
FsMap(consumed) ==
    [did \in consumed \cap DOMAIN qc_current_state |-> qc_current_state[did].data]

\* One merged image (ImageItem)
MergeImage(pvid, img, fs_map) ==
    LET did == get_firestore_doc_id(pvid, img.image_index)
        state == Get(fs_map, did, <<>>)
        issues_state == Get(state, "issues", <<>>)
    IN  [image_index |-> img.image_index,
         image_url |-> img.image_url,
         review_status |-> Get(state, "review_status", "NOT_REVIEWED"),
         issues |-> [k \in ISSUE_KEYS |-> Get(issues_state, k, FALSE)],
         updated_by |-> IF "updated_by" \in DOMAIN state THEN Some(state.updated_by) ELSE None,
         updated_at |-> IF "updated_at" \in DOMAIN state THEN Some(state.updated_at) ELSE None]

\* Mutant of PvidReviewStatus: a product without images counts as reviewed
PvidReviewStatus_vacuous(merged_images) ==
    LET all_images_reviewed ==
            \A n \in 1..Len(merged_images) : merged_images[n].review_status = "REVIEWED"
    IN  IF all_images_reviewed THEN "REVIEWED" ELSE "NOT_REVIEWED"

\* Compute PVID status
PvidReviewStatus(merged_images) ==
    LET all_images_reviewed ==
            /\ merged_images # <<>>
            /\ \A n \in 1..Len(merged_images) : merged_images[n].review_status = "REVIEWED"
    IN  IF all_images_reviewed /\ merged_images # <<>> THEN "REVIEWED" ELSE "NOT_REVIEWED"

\* Mutant of StatusFilter: the REVIEWED filter is not applied
StatusFilter_not_reviewed_only(status, pvid_review_status) ==
    IF status # None /\ status # Some("All")
    THEN ~(status = Some("NOT_REVIEWED") /\ pvid_review_status = "REVIEWED")
    ELSE TRUE

\* Apply Status Filter at PVID level: TRUE when the product is kept
StatusFilter(status, pvid_review_status) ==
    IF status # None /\ status # Some("All")
    THEN /\ ~(status = Some("REVIEWED") /\ pvid_review_status # "REVIEWED")
         /\ ~(status = Some("NOT_REVIEWED") /\ pvid_review_status = "REVIEWED")
    ELSE TRUE

PvidItem(rows, pvid, fs_map) ==
    LET raw == RawImages(rows, pvid)
        merged_images == [n \in 1..Len(raw) |-> MergeImage(pvid, raw[n], fs_map)]
    IN  [product_variant_id |-> pvid,
         pvid_review_status |-> PvidReviewStatus(merged_images),
         images |-> merged_images]

\* Mutant of ImagesResponse: has_more is computed from the items left after
\* the status filter
ImagesResponse_has_more_items(rows, page, status, fs_map) ==
    IF rows = <<>>
    THEN [code |-> 200, items |-> <<>>, page |-> page, page_size |-> limit, has_more |-> FALSE]
    ELSE LET order == PvidOrder(rows)
             all == [n \in 1..Len(order) |-> PvidItem(rows, order[n], fs_map)]
             items == SelectSeq(all, LAMBDA it : StatusFilter(status, it.pvid_review_status))
         IN  [code |-> 200, items |-> items, page |-> page, page_size |-> limit,
              has_more |-> (Len(items) = limit)]

ImagesResponse(rows, page, status, fs_map) ==
    IF rows = <<>>
    THEN [code |-> 200, items |-> <<>>, page |-> page, page_size |-> limit, has_more |-> FALSE]
    ELSE LET order == PvidOrder(rows)
             all == [n \in 1..Len(order) |-> PvidItem(rows, order[n], fs_map)]
         IN  [code |-> 200,
              items |-> SelectSeq(all, LAMBDA it : StatusFilter(status, it.pvid_review_status)),
              page |-> page, page_size |-> limit,
              has_more |-> (Len(rows) = limit)]

\* GET /images: the catalog query, the batch lookup and the merge. The
\* catalog query may fail (500); the batch lookup may raise after any part
\* of its result stream was consumed.
get_images_from(p, tables) ==
    /\ pc[p] = "idle"
    /\ nreads < MaxReads
    /\ nreads' = nreads + 1
    /\ \E fs \in get_fs_client(p), table \in tables, page \in PageInputs,
          status \in StatusInputs, bq_ok \in BOOLEAN :
        LET rows == Query(Table(table), page)
            doc_ids == DocIds(rows, fs)
        IN  \E raised \in BOOLEAN, consumed \in SUBSET doc_ids :
              /\ bq_ok \/ (~raised /\ consumed = {})
              /\ ~bq_ok \/ raised \/ consumed = doc_ids
              /\ raised => bq_ok /\ doc_ids # {}
              /\ fs_client' = [fs_client EXCEPT ![p] = fs]
              /\ Respond(p, [kind |-> "images", table |-> table, page |-> page,
                             status |-> status, bq_ok |-> bq_ok, raised |-> raised],
                         IF bq_ok THEN ImagesResponse(rows, page, status, FsMap(consumed))
                         ELSE [code |-> 500])
    /\ UNCHANGED <<pc, req, txn, qc_current_state, qc_event_log, uuid_count, utcnow, ntoggles,
                   pipeline_vars>>

get_images(p) == get_images_from(p, TableInputs)

\* GET /images on a catalog of about one page
get_images_paged(p) == get_images_from(p, PagingTableInputs)

\* ------------------------------------------------------------ role lookup
EmailInputs == {"ann@qc.example", "bob@qc.example", ""}

\* What document(email).get() finds in the Reviewers collection: no document,
\* or a document with its data
ReviewerRecords ==
    {None, Some([role |-> "reviewer"]), Some([role |-> "admin"]), Some([role |-> "viewer"]),
     Some([role |-> "superuser"]), Some([name |-> "Ann"])}

\* Mutant of RoleResult: a failed lookup is answered with an error
RoleResult_error(fs, email, record, raised) ==
    IF fs # "client" THEN [code |-> 200, email |-> email, role |-> "viewer", exists |-> FALSE]
    ELSE IF raised THEN [code |-> 500]
    ELSE IF record = None
         THEN [code |-> 200, email |-> email, role |-> "viewer", exists |-> FALSE]
    ELSE LET data == record[1]
             stored == Get(data, "role", "")
         IN  [code |-> 200, email |-> email,
              role |-> IF stored = "reviewer" THEN "reviewer"
                       ELSE IF stored = "admin" THEN "admin" ELSE "viewer",
              exists |-> TRUE]

\* The RoleResponse of get_role: fs is the client get_fs_client returned,
\* record what the lookup found, raised whether the lookup raised
RoleResult(fs, email, record, raised) ==
    IF fs # "client" THEN [code |-> 200, email |-> email, role |-> "viewer", exists |-> FALSE]
    ELSE IF raised
         THEN [code |-> 200, email |-> email, role |-> "viewer", exists |-> FALSE]
    ELSE IF record = None
         THEN [code |-> 200, email |-> email, role |-> "viewer", exists |-> FALSE]
    ELSE LET data == record[1]
             stored == Get(data, "role", "")
         IN  [code |-> 200, email |-> email,
              role |-> IF stored = "reviewer" THEN "reviewer"
                       ELSE IF stored = "admin" THEN "admin" ELSE "viewer",
              exists |-> TRUE]

\* GET /me/role
get_role(p) ==
    /\ pc[p] = "idle"
    /\ \E fs \in get_fs_client(p), email \in EmailInputs, record \in ReviewerRecords,
          raised \in BOOLEAN :
        /\ raised => fs = "client"
        /\ fs_client' = [fs_client EXCEPT ![p] = fs]
        /\ Respond(p, [kind |-> "role", email |-> email, record |-> record,
                       raised |-> raised],
                   RoleResult(fs, email, record, raised))
    /\ UNCHANGED <<pc, req, txn, qc_current_state, qc_event_log, uuid_count, utcnow, ntoggles,
                   nreads, pipeline_vars>>

\* ------------------------------------------------- replication trigger
\* Python values of the pipeline are tagged tuples, so that values of
\* different types can be compared
PyNone == <<"none">>
PyStr(x) == <<"str", x>>
PyInt(n) == <<"int", n>>
PyFloat(n) == <<"float", n>>
PyBool(b) == <<"bool", b>>
PyDict(d) == <<"dict", d>>
PyList(l) == <<"list", l>>

Digits == "0123456789"
IsDigit(c) == \E d \in 1..10 : SubSeq(Digits, d, d) = c
DigitVal(c) == CHOOSE d \in 0..9 : SubSeq(Digits, d + 1, d + 1) = c

RECURSIVE StrToNat(_)
StrToNat(text) ==
    IF Len(text) = 0 THEN 0
    ELSE StrToNat(SubSeq(text, 1, Len(text) - 1)) * 10
         + DigitVal(SubSeq(text, Len(text), Len(text)))

\* int(text): decimal digits with an optional leading minus sign; any other
\* text raises ValueError
IntRaises(text) ==
    LET body == IF Len(text) > 0 /\ SubSeq(text, 1, 1) = "-"
                THEN SubSeq(text, 2, Len(text)) ELSE text
    IN  Len(body) = 0 \/ \E i \in 1..Len(body) : ~IsDigit(SubSeq(body, i, i))

int(text) ==
    IF Len(text) > 0 /\ SubSeq(text, 1, 1) = "-"
    THEN 0 - StrToNat(SubSeq(text, 2, Len(text)))
    ELSE StrToNat(text)

RECURSIVE parse_value(_), parse_firestore_document(_), ValueRaises(_), DocumentRaises(_)

\* Mutant of parse_value: an integer is left as its text
parse_value_integer_text(value) ==
    IF "stringValue" \in DOMAIN value THEN PyStr(value.stringValue)
    ELSE IF "integerValue" \in DOMAIN value THEN PyStr(value.integerValue)
    ELSE IF "doubleValue" \in DOMAIN value THEN PyFloat(value.doubleValue)
    ELSE IF "booleanValue" \in DOMAIN value THEN PyBool(value.booleanValue)
    ELSE IF "timestampValue" \in DOMAIN value THEN PyStr(value.timestampValue)
    ELSE IF "mapValue" \in DOMAIN value THEN PyDict(parse_firestore_document(value.mapValue))
    ELSE IF "arrayValue" \in DOMAIN value
         THEN LET values == Get(value.arrayValue, "values", <<>>)
              IN  PyList([i \in 1..Len(values) |-> parse_value(values[i])])
    ELSE PyNone

\* parse_firestore_document: the fields of a document (none when 'fields' is
\* missing), each unwrapped by parse_value
parse_firestore_document(document) ==
    LET fields == Get(document, "fields", <<>>)
    IN  [key \in DOMAIN fields |-> parse_value(fields[key])]

parse_value(value) ==
    IF "stringValue" \in DOMAIN value THEN PyStr(value.stringValue)
    ELSE IF "integerValue" \in DOMAIN value THEN PyInt(int(value.integerValue))
    ELSE IF "doubleValue" \in DOMAIN value THEN PyFloat(value.doubleValue)
    ELSE IF "booleanValue" \in DOMAIN value THEN PyBool(value.booleanValue)
    ELSE IF "timestampValue" \in DOMAIN value THEN PyStr(value.timestampValue)
    ELSE IF "mapValue" \in DOMAIN value THEN PyDict(parse_firestore_document(value.mapValue))
    ELSE IF "arrayValue" \in DOMAIN value
         THEN LET values == Get(value.arrayValue, "values", <<>>)
              IN  PyList([i \in 1..Len(values) |-> parse_value(values[i])])
    ELSE IF "nullValue" \in DOMAIN value THEN PyNone
    ELSE PyNone

\* The decoding raises: an integerValue that int() rejects, at any depth
DocumentRaises(document) ==
    LET fields == Get(document, "fields", <<>>)
    IN  \E key \in DOMAIN fields : ValueRaises(fields[key])

ValueRaises(value) ==
    IF "stringValue" \in DOMAIN value THEN FALSE
    ELSE IF "integerValue" \in DOMAIN value THEN IntRaises(value.integerValue)
    ELSE IF "doubleValue" \in DOMAIN value THEN FALSE
    ELSE IF "booleanValue" \in DOMAIN value THEN FALSE
    ELSE IF "timestampValue" \in DOMAIN value THEN FALSE
    ELSE IF "mapValue" \in DOMAIN value THEN DocumentRaises(value.mapValue)
    ELSE IF "arrayValue" \in DOMAIN value
         THEN LET values == Get(value.arrayValue, "values", <<>>)
              IN  \E i \in 1..Len(values) : ValueRaises(values[i])
    ELSE FALSE

\* json.dumps of a parsed value; the keys of a mapping are written in the
\* order of JsonKeyOrder
JsonKeyOrder ==
    <<"image_blur", "cropped_image", "mrp_present_in_image", "image_quality", "aspect_ratio">>

RECURSIVE JoinJson(_)
JoinJson(parts) ==
    IF parts = <<>> THEN ""
    ELSE IF Len(parts) = 1 THEN parts[1]
    ELSE parts[1] \o ", " \o JoinJson(Tail(parts))

RECURSIVE json_dumps(_)
json_dumps(v) ==
    IF v[1] = "none" THEN "null"
    ELSE IF v[1] = "bool" THEN (IF v[2] THEN "true" ELSE "false")
    ELSE IF v[1] = "int" THEN ToString(v[2])
    ELSE IF v[1] = "float" THEN ToString(v[2]) \o ".0"
    ELSE IF v[1] = "str" THEN "\"" \o v[2] \o "\""
    ELSE IF v[1] = "list"
         THEN "[" \o JoinJson([i \in 1..Len(v[2]) |-> json_dumps(v[2][i])]) \o "]"
    ELSE LET keys == SelectSeq(JsonKeyOrder, LAMBDA k : k \in DOMAIN v[2])
         IN  "{" \o JoinJson([i \in 1..Len(keys) |->
                                "\"" \o keys[i] \o "\": " \o json_dumps(v[2][keys[i]])])
                 \o "}"

\* Mutant of transform_to_bq_row: without issues_snapshot in the document the
\* column is left out
transform_to_bq_row_no_column(data) ==
    LET columns ==
            [event_id |-> Get(data, "event_id", PyNone),
             event_ts |-> Get(data, "event_ts", PyNone),
             event_type |-> Get(data, "event_type", PyNone),
             actor |-> Get(data, "actor", PyNone),
             product_variant_id |-> Get(data, "product_variant_id", PyNone),
             image_index |-> Get(data, "image_index", PyNone),
             old_status |-> Get(data, "old_status", PyNone),
             new_status |-> Get(data, "new_status", PyNone),
             issue_key |-> Get(data, "issue_key", PyNone),
             old_issue_value |-> Get(data, "old_issue_value", PyNone),
             new_issue_value |-> Get(data, "new_issue_value", PyNone),
             source |-> PyStr("firestore_trigger")]
    IN  IF "issues_snapshot" \in DOMAIN data
        THEN columns @@ [issues_snapshot |-> PyStr(json_dumps(data.issues_snapshot))]
        ELSE columns

\* transform_to_bq_row
transform_to_bq_row(data) ==
    [event_id |-> Get(data, "event_id", PyNone),
     event_ts |-> Get(data, "event_ts", PyNone),
     event_type |-> Get(data, "event_type", PyNone),
     actor |-> Get(data, "actor", PyNone),
     product_variant_id |-> Get(data, "product_variant_id", PyNone),
     image_index |-> Get(data, "image_index", PyNone),
     old_status |-> Get(data, "old_status", PyNone),
     new_status |-> Get(data, "new_status", PyNone),
     issue_key |-> Get(data, "issue_key", PyNone),
     old_issue_value |-> Get(data, "old_issue_value", PyNone),
     new_issue_value |-> Get(data, "new_issue_value", PyNone),
     source |-> PyStr("firestore_trigger"),
     issues_snapshot |-> IF "issues_snapshot" \in DOMAIN data
                         THEN PyStr(json_dumps(data.issues_snapshot))
                         ELSE PyNone]

\* The change notification of an event document of qc_event_log: the
\* document in the store's tagged-value form
EncodeEvent(e) ==
    LET common ==
            [event_id |-> [stringValue |-> "evt-" \o ToString(e.event_id)],
             event_ts |-> [timestampValue |-> "ts-" \o ToString(e.event_ts)],
             event_type |-> [stringValue |-> e.event_type],
             product_variant_id |-> [stringValue |-> e.product_variant_id],
             image_index |-> [integerValue |-> ToString(e.image_index)],
             actor |-> [stringValue |-> e.actor]]
    IN  [name |-> "qc_event_log/evt-" \o ToString(e.event_id),
         fields |->
            IF e.event_type = "STATUS_CHANGE"
            THEN common @@ [old_status |-> [stringValue |-> e.old_status],
                            new_status |-> [stringValue |-> e.new_status]]
            ELSE common @@
                 [issue_key |-> [stringValue |-> e.issue_key],
                  old_issue_value |-> [booleanValue |-> e.old_issue_value],
                  new_issue_value |-> [booleanValue |-> e.new_issue_value],
                  issues_snapshot |->
                     [mapValue |->
                        [fields |-> [k \in DOMAIN e.issues_snapshot |->
                                       [booleanValue |-> e.issues_snapshot[k]]]]]]]

\* Events the write path produces on an image without prior state
AbsentSnapshot == [exists |-> FALSE, data |-> <<>>, update_time |-> 0]

SampleEvents ==
    {StatusWrites([kind |-> "status", product_variant_id |-> "P1", image_index |-> 1,
                   actor |-> ActorOf(1)],
                  [event_id |-> 1, event_ts |-> 0], AbsentSnapshot).event,
     IssueWrites([kind |-> "issue", product_variant_id |-> "P1", image_index |-> 12,
                  actor |-> ActorOf(2), issue_key |-> "image_blur", value |-> TRUE],
                 [event_id |-> 2, event_ts |-> 1], AbsentSnapshot).event,
     IssueWrites([kind |-> "issue", product_variant_id |-> "P1", image_index |-> 1,
                  actor |-> ActorOf(1), issue_key |-> "aspect_ratio", value |-> FALSE],
                 [event_id |-> 3, event_ts |-> 2], AbsentSnapshot).event}

\* cloud_event.data of the invocations: written documents, a notification
\* without 'value' (a deletion), a document without 'fields', a document with
\* no field, and a document whose integer field is not a number
Payloads ==
    {[value |-> EncodeEvent(e)] : e \in SampleEvents}
    \cup {[oldValue |-> [name |-> "qc_event_log/evt-0"]],
          [value |-> [name |-> "qc_event_log/evt-0"]],
          [value |-> [name |-> "qc_event_log/evt-0", fields |-> <<>>]],
          [value |-> [name |-> "qc_event_log/evt-0",
                      fields |-> [event_id |-> [stringValue |-> "evt-0"],
                                  image_index |-> [integerValue |-> "1x"]]]]}

\* ------------------------------------------------- codec and projector
\* Tagged values without nested values: one of every tag parse_value knows,
\* an untagged value, tags it does not know, and an integer that is no number
LeafValues ==
    {[stringValue |-> "x"], [stringValue |-> ""],
     [integerValue |-> "5"], [integerValue |-> "-12"], [integerValue |-> "0"],
     [doubleValue |-> 2],
     [booleanValue |-> TRUE], [booleanValue |-> FALSE],
     [timestampValue |-> "2024-05-01T10:00:00Z"],
     [nullValue |-> "NULL_VALUE"],
     <<>>,
     [geoPointValue |-> "0,0"], [referenceValue |-> "projects/p/documents/d"],
     [integerValue |-> "1x"]}

NestedValues ==
    {[mapValue |-> [fields |-> [c |-> v]]] : v \in LeafValues}
    \cup {[arrayValue |-> [values |-> <<v>>]] : v \in LeafValues}
    \cup {[arrayValue |-> [values |-> <<[stringValue |-> "x"], v>>]] : v \in LeafValues}
    \cup {[mapValue |-> <<>>], [arrayValue |-> <<>>],
          [mapValue |-> [fields |-> [c |-> [mapValue |->
                            [fields |-> [d |-> [integerValue |-> "7"]]]]]]],
          [arrayValue |-> [values |-> <<[mapValue |-> [fields |-> [c |-> [booleanValue |-> TRUE]]]]>>]]}

ExampleDocument ==
    [fields |-> [a |-> [stringValue |-> "x"],
                 b |-> [mapValue |-> [fields |-> [c |-> [integerValue |-> "5"]]]]]]

\* The documents handed to the codec: one field of every value, the example,
\* a document without 'fields', the event documents the write path produces,
\* and an event document whose issues_snapshot is null
CodecDocuments ==
    {[fields |-> [a |-> v]] : v \in LeafValues \cup NestedValues}
    \cup {ExampleDocument, [name |-> "qc_event_log/evt-0"]}
    \cup {EncodeEvent(e) : e \in SampleEvents}
    \cup {[fields |-> [event_id |-> [stringValue |-> "evt-9"],
                       issues_snapshot |-> [nullValue |-> "NULL_VALUE"]]]}

\* doc_data = parse_firestore_document(document)
decode ==
    /\ codec_pc = "input"
    /\ IF DocumentRaises(in_document)
       THEN codec_pc' = "raised" /\ out_parsed' = out_parsed
       ELSE codec_pc' = "parsed" /\ out_parsed' = parse_firestore_document(in_document)
    /\ UNCHANGED <<in_document, out_row, bq_client, sink, invocation, ninvocations, acked, api_vars>>

\* row = transform_to_bq_row(doc_data)
project ==
    /\ codec_pc = "parsed"
    /\ out_row' = transform_to_bq_row(out_parsed)
    /\ codec_pc' = "row"
    /\ UNCHANGED <<in_document, out_parsed, bq_client, sink, invocation, ninvocations, acked, api_vars>>

InitCodec ==
    /\ InitApi
    /\ bq_client = "client"
    /\ sink = <<>>
    /\ invocation = NoInvocation
    /\ ninvocations = 0
    /\ acked = {}
    /\ in_document \in CodecDocuments
    /\ out_parsed = <<>> /\ out_row = <<>> /\ codec_pc = "input"

NextCodec == decode \/ project

\* Mutant of TriggerResult: an empty decoded document is not skipped
TriggerResult_no_skip(data, errors) ==
    IF bq_client = "none" THEN [outcome |-> "raised", rows |-> <<>>]
    ELSE IF "value" \notin DOMAIN data THEN [outcome |-> "returned", rows |-> <<>>]
    ELSE IF DocumentRaises(data.value) THEN [outcome |-> "raised", rows |-> <<>>]
    ELSE LET doc_data == parse_firestore_document(data.value)
             row == transform_to_bq_row(doc_data)
         IN  IF errors THEN [outcome |-> "raised", rows |-> <<>>]
             ELSE [outcome |-> "returned", rows |-> <<row>>]

\* Mutant of TriggerResult: insert errors are logged and the invocation
\* returns
TriggerResult_errors_logged(data, errors) ==
    IF bq_client = "none" THEN [outcome |-> "raised", rows |-> <<>>]
    ELSE IF "value" \notin DOMAIN data THEN [outcome |-> "returned", rows |-> <<>>]
    ELSE IF DocumentRaises(data.value) THEN [outcome |-> "raised", rows |-> <<>>]
    ELSE LET doc_data == parse_firestore_document(data.value)
             row == transform_to_bq_row(doc_data)
         IN  IF DOMAIN doc_data = {} THEN [outcome |-> "returned", rows |-> <<>>]
             ELSE IF errors THEN [outcome |-> "returned", rows |-> <<>>]
             ELSE [outcome |-> "returned", rows |-> <<row>>]

\* Mutant of TriggerResult: the exception handler does not re-raise
TriggerResult_no_reraise(data, errors) ==
    IF bq_client = "none" THEN [outcome |-> "raised", rows |-> <<>>]
    ELSE IF "value" \notin DOMAIN data THEN [outcome |-> "returned", rows |-> <<>>]
    ELSE IF DocumentRaises(data.value) THEN [outcome |-> "returned", rows |-> <<>>]
    ELSE LET doc_data == parse_firestore_document(data.value)
             row == transform_to_bq_row(doc_data)
         IN  IF DOMAIN doc_data = {} THEN [outcome |-> "returned", rows |-> <<>>]
             ELSE IF errors THEN [outcome |-> "returned", rows |-> <<>>]
             ELSE [outcome |-> "returned", rows |-> <<row>>]

\* The body of firestore_to_bigquery on one payload: how the invocation ends
\* and the rows it inserted; errors is the result of insert_rows_json
TriggerResult(data, errors) ==
    IF bq_client = "none" THEN [outcome |-> "raised", rows |-> <<>>]
    ELSE IF "value" \notin DOMAIN data THEN [outcome |-> "returned", rows |-> <<>>]
    ELSE IF DocumentRaises(data.value) THEN [outcome |-> "raised", rows |-> <<>>]
    ELSE LET doc_data == parse_firestore_document(data.value)
             row == transform_to_bq_row(doc_data)
         IN  IF DOMAIN doc_data = {} THEN [outcome |-> "returned", rows |-> <<>>]
             ELSE IF errors THEN [outcome |-> "raised", rows |-> <<>>]
             ELSE [outcome |-> "returned", rows |-> <<row>>]

\* One invocation of the trigger
firestore_to_bigquery ==
    /\ ninvocations < MaxInvocations
    /\ ninvocations' = ninvocations + 1
    /\ \E data \in Payloads, errors \in BOOLEAN :
        LET result == TriggerResult(data, errors)
        IN  /\ sink' = sink \o result.rows
            /\ invocation' = [data |-> data, errors |-> errors, outcome |-> result.outcome]
    /\ UNCHANGED <<bq_client, acked, codec_vars, api_vars>>

\* The trigger invoked on the change notification of the i-th event document
\* of qc_event_log. The notification is delivered again until an invocation
\* on it returns; a notification already acknowledged may be delivered again
\* (at-least-once delivery), which is what ninvocations counts here.
deliver(i) ==
    /\ i \in 1..Len(qc_event_log)
    /\ LET e == qc_event_log[i]
       IN  /\ e.event_id \notin acked \/ ninvocations < MaxDuplicates
           /\ ninvocations' = IF e.event_id \in acked THEN ninvocations + 1 ELSE ninvocations
           /\ \E errors \in BOOLEAN, data \in {[value |-> EncodeEvent(e)]} :
                \E result \in {TriggerResult(data, errors)} :
                    /\ sink' = sink \o result.rows
                    /\ invocation' = [data |-> data, errors |-> errors,
                                      outcome |-> result.outcome]
                    /\ acked' = IF result.outcome = "returned"
                                THEN acked \cup {e.event_id} ELSE acked
    /\ UNCHANGED <<bq_client, codec_vars, api_vars>>

\* A new instance of the function: the module-level client initialisation
cold_start ==
    /\ bq_client' \in {"client", "none"}
    /\ UNCHANGED <<sink, invocation, ninvocations, acked, codec_vars, api_vars>>

InitPipeline ==
    /\ InitApi
    /\ bq_client \in {"client", "none"}
    /\ sink = <<>>
    /\ invocation = NoInvocation
    /\ ninvocations = 0
    /\ acked = {}
    /\ in_document = <<>> /\ out_parsed = <<>> /\ out_row = <<>> /\ codec_pc = "idle"

NextPipeline == firestore_to_bigquery

\* Replication of the events one writer commits
Writer == 1

NextReplicate ==
    \/ ntoggles < MaxReplicated /\ toggle_status(Writer)
    \/ ntoggles < MaxReplicated /\ toggle_issue(Writer)
    \/ update_in_transaction(Writer)
    \/ commit(Writer)
    \/ fail(Writer)
    \/ \E i \in 1..MaxReplicated : deliver(i)
    \/ cold_start

\* The first acknowledged delivery of some event's notification
DeliverOk == \E i \in 1..MaxReplicated : deliver(i) /\ acked' # acked

\* Every failed invocation is redelivered and the insert eventually succeeds:
\* an instance without client is eventually replaced by one with a client,
\* and a delivery that can succeed again and again eventually does
Redelivery ==
    /\ WF_vars(cold_start /\ bq_client = "none" /\ bq_client' = "client")
    /\ SF_vars(DeliverOk)

Next ==
    \E p \in Workers :
        \/ toggle_status(p)
        \/ toggle_issue(p)
        \/ update_in_transaction(p)
        \/ commit(p)
        \/ retry(p)
        \/ fail(p)

NextRead ==
    \/ Next
    \/ \E p \in Workers : get_images(p)

Spec == Init /\ [][Next]_vars

\* The write path on the requests FrameToggleRequests, FrameIssueToggleRequests
NextFrame ==
    \E p \in Workers :
        \/ toggle_status_of(p, FrameToggleRequests(p))
        \/ toggle_issue_of(p, FrameIssueToggleRequests(p))
        \/ update_in_transaction(p)
        \/ commit(p)
        \/ retry(p)
        \/ fail(p)

SpecFrame == Init /\ [][NextFrame]_vars

SpecRead == Init /\ [][NextRead]_vars

NextPaging == \E p \in Workers : get_images_paged(p)

SpecPaging == Init /\ [][NextPaging]_vars

NextRole == \E p \in Workers : get_role(p)

SpecRole == Init /\ [][NextRole]_vars

SpecPipeline == InitPipeline /\ [][NextPipeline]_vars

SpecReplicate == InitPipeline /\ [][NextReplicate]_vars /\ Redelivery

SpecCodec == InitCodec /\ [][NextCodec]_vars

\* The two endpoints that write, the read endpoint and the replication
\* function over the same event log
NextLog ==
    \/ \E p \in Workers :
         \/ ntoggles < MaxReplicated /\ toggle_status_of(p, FrameToggleRequests(p))
         \/ ntoggles < MaxReplicated /\ toggle_issue(p)
         \/ update_in_transaction(p)
         \/ commit(p)
         \/ retry(p)
         \/ fail(p)
         \/ get_images(p)
    \/ \E i \in 1..MaxReplicated : deliver(i)

SpecLog == Init /\ [][NextLog]_vars

TypeOK ==
    /\ \A p \in Workers : pc[p] \in {"idle", "txn", "commit"}
    /\ \A p \in Workers : fs_client[p] \in {"uninit", "client", "none"}

\* ======================================================== write-path claims
AllDocIds == {get_firestore_doc_id(pv, idx) : pv \in PvidInputs, idx \in IndexInputs}

FiveIssueKeys ==
    {"image_blur", "cropped_image", "mrp_present_in_image", "image_quality", "aspect_ratio"}

Opposite(status) == IF status = "REVIEWED" THEN "NOT_REVIEWED" ELSE "REVIEWED"

StatusOfDoc(coll, did) ==
    IF did \in DOMAIN coll THEN Get(coll[did].data, "review_status", "NOT_REVIEWED")
    ELSE "NOT_REVIEWED"

IssueOfDoc(coll, did, k) ==
    IF did \in DOMAIN coll THEN Get(Get(coll[did].data, "issues", <<>>), k, FALSE) ELSE FALSE

EventsOf(did) == SelectSeq(qc_event_log, LAMBDA e : DocIdOf(e) = did)

StatusEventsOf(did) ==
    SelectSeq(qc_event_log, LAMBDA e : DocIdOf(e) = did /\ e.event_type = "STATUS_CHANGE")

IssueEventsOf(did, k) ==
    SelectSeq(qc_event_log,
              LAMBDA e : DocIdOf(e) = did /\ e.event_type = "ISSUE_CHANGE" /\ e.issue_key = k)

\* The step in which worker p commits its toggle of the given kind
Commits(p, kind) ==
    /\ pc[p] = "commit" /\ req[p].kind = kind
    /\ pc'[p] = "idle" /\ done'.worker = p /\ done'.resp.code = 200

\* The step appends exactly one event, the last of the new log
AppendsOne == Len(qc_event_log') = Len(qc_event_log) + 1
              /\ SubSeq(qc_event_log', 1, Len(qc_event_log)) = qc_event_log

LastEvent(log) == log[Len(log)]

\* C1: in every reachable state, for every (product_variant_id, image_index)
\* key, the number of events of the log on that key equals the number of
\* committed writes of the key's state document; no event is on another key,
\* event ids are pairwise distinct and there are at most as many events as
\* requests that drew an event id (a retried request commits one event).
C1_AtomicPairing ==
    /\ DOMAIN qc_current_state \subseteq AllDocIds
    /\ \A i \in 1..Len(qc_event_log) : DocIdOf(qc_event_log[i]) \in AllDocIds
    /\ \A did \in AllDocIds : Len(EventsOf(did)) = Snapshot(did).update_time
    /\ \A i, j \in 1..Len(qc_event_log) :
          qc_event_log[i].event_id = qc_event_log[j].event_id => i = j
    /\ Len(qc_event_log) <= uuid_count

\* A request committed on its second attempt, after a conflict with another
\* committed toggle on the same key
C1_Witness ==
    /\ done.resp.code = 200 /\ done.attempts = 2
    /\ Len(EventsOf(DocIdOf(done.req))) = 2
    /\ Snapshot(DocIdOf(done.req)).update_time = 2

\* C2: every committed toggle_status sets review_status to the opposite of
\* the status persisted before it (NOT_REVIEWED when absent), returns the new
\* status and appends one STATUS_CHANGE event with that old and new status;
\* a key with exactly two events, both STATUS_CHANGE, is NOT_REVIEWED and its
\* events are NOT_REVIEWED->REVIEWED then REVIEWED->NOT_REVIEWED.
C2_Step ==
    \A p \in Workers : Commits(p, "status") =>
        LET did == DocIdOf(req[p])
            before == StatusOfDoc(qc_current_state, did)
            after == StatusOfDoc(qc_current_state', did)
        IN  /\ after = Opposite(before)
            /\ done'.resp.new_status = after
            /\ AppendsOne
            /\ LastEvent(qc_event_log').event_type = "STATUS_CHANGE"
            /\ DocIdOf(LastEvent(qc_event_log')) = did
            /\ LastEvent(qc_event_log').old_status = before
            /\ LastEvent(qc_event_log').new_status = after

C2_TwoToggles ==
    \A did \in AllDocIds :
        LET ev == EventsOf(did)
        IN  (Len(ev) = 2 /\ \A n \in 1..2 : ev[n].event_type = "STATUS_CHANGE") =>
              /\ StatusOfDoc(qc_current_state, did) = "NOT_REVIEWED"
              /\ ev[1].old_status = "NOT_REVIEWED" /\ ev[1].new_status = "REVIEWED"
              /\ ev[2].old_status = "REVIEWED" /\ ev[2].new_status = "NOT_REVIEWED"

C2_StatusFlip == [][C2_Step]_vars /\ []C2_TwoToggles

\* The second of two status toggles on a never-reviewed image has returned
C2_Witness ==
    /\ done.req.kind = "status" /\ done.resp.code = 200
    /\ done.resp.new_status = "NOT_REVIEWED"
    /\ Len(EventsOf(DocIdOf(done.req))) = 2
    /\ Len(StatusEventsOf(DocIdOf(done.req))) = 2

\* C3: for every key, after n committed status toggles the status is REVIEWED
\* iff n is odd; in commit order each STATUS_CHANGE event's old_status is the
\* previous one's new_status (NOT_REVIEWED for the first); each ISSUE_CHANGE
\* event's old value is the previous new value of that issue (false for the
\* first) and the state holds the last committed value of every issue.
C3_Serializable ==
    \A did \in AllDocIds :
        LET se == StatusEventsOf(did)
        IN  /\ StatusOfDoc(qc_current_state, did) =
                  IF Len(se) % 2 = 1 THEN "REVIEWED" ELSE "NOT_REVIEWED"
            /\ \A n \in 1..Len(se) :
                  se[n].old_status = IF n = 1 THEN "NOT_REVIEWED" ELSE se[n - 1].new_status
            /\ \A k \in FiveIssueKeys :
                  LET ie == IssueEventsOf(did, k)
                  IN  /\ \A n \in 1..Len(ie) :
                            ie[n].old_issue_value =
                                IF n = 1 THEN FALSE ELSE ie[n - 1].new_issue_value
                      /\ IssueOfDoc(qc_current_state, did, k) =
                            IF ie = <<>> THEN FALSE ELSE ie[Len(ie)].new_issue_value

\* A status toggle and an issue toggle raced on one key: one of them lost the
\* commit, ran again and committed
C3_Witness ==
    /\ done.resp.code = 200 /\ done.attempts = 2
    /\ StatusEventsOf(DocIdOf(done.req)) # <<>>
    /\ \E k \in FiveIssueKeys : IssueEventsOf(DocIdOf(done.req), k) # <<>>

\* Two ISSUE_CHANGE events i < j on the same key and issue_key, both
\* requesting true, with no event on that issue of that key between them
SuccessiveTrue(i, j) ==
    LET log == qc_event_log
    IN  /\ i < j
        /\ log[i].event_type = "ISSUE_CHANGE" /\ log[j].event_type = "ISSUE_CHANGE"
        /\ DocIdOf(log[i]) = DocIdOf(log[j]) /\ log[i].issue_key = log[j].issue_key
        /\ log[i].new_issue_value = TRUE /\ log[j].new_issue_value = TRUE
        /\ \A m \in (i + 1)..(j - 1) :
              ~(log[m].event_type = "ISSUE_CHANGE" /\ DocIdOf(log[m]) = DocIdOf(log[i])
                /\ log[m].issue_key = log[i].issue_key)

\* C4 as stated: of two successive value=true toggles of one issue, each of
\* the two events has old_issue_value = new_issue_value = true.
C4_Original ==
    \A i, j \in 1..Len(qc_event_log) : SuccessiveTrue(i, j) =>
        /\ qc_event_log[i].old_issue_value = TRUE /\ qc_event_log[i].new_issue_value = TRUE
        /\ qc_event_log[j].old_issue_value = TRUE /\ qc_event_log[j].new_issue_value = TRUE

\* C4 (amended): every committed toggle_issue with value=true leaves
\* issues[issue_key] true and appends one ISSUE_CHANGE event whose new value is
\* true and whose old value is the value stored before (false when absent);
\* of two successive value=true toggles, the second event has old = new = true
\* and both snapshots hold true for the issue.
C4_Step ==
    \A p \in Workers : (Commits(p, "issue") /\ req[p].value = TRUE) =>
        LET did == DocIdOf(req[p])
            k == req[p].issue_key
        IN  /\ IssueOfDoc(qc_current_state', did, k) = TRUE
            /\ AppendsOne
            /\ LastEvent(qc_event_log').event_type = "ISSUE_CHANGE"
            /\ LastEvent(qc_event_log').issue_key = k
            /\ LastEvent(qc_event_log').new_issue_value = TRUE
            /\ LastEvent(qc_event_log').old_issue_value = IssueOfDoc(qc_current_state, did, k)

C4_Pairs ==
    \A i, j \in 1..Len(qc_event_log) : SuccessiveTrue(i, j) =>
        LET k == qc_event_log[i].issue_key
        IN  /\ qc_event_log[j].old_issue_value = TRUE
            /\ qc_event_log[j].new_issue_value = TRUE
            /\ qc_event_log[i].issues_snapshot[k] = TRUE
            /\ qc_event_log[j].issues_snapshot[k] = TRUE

C4_SetTrueTwice == [][C4_Step]_vars /\ []C4_Pairs

\* The image's flag was never set, then set to true twice in succession
C4_Witness ==
    \E i, j \in 1..Len(qc_event_log) :
        /\ SuccessiveTrue(i, j)
        /\ qc_event_log[i].old_issue_value = FALSE
        /\ IssueOfDoc(qc_current_state, DocIdOf(qc_event_log[j]), qc_event_log[j].issue_key)

\* C5: a toggle_issue request whose issue_key is outside the five fixed keys
\* ends in one step that leaves the current-state store and the event log as
\* they were; no such request is ever in a transaction, and no document or
\* event carries an issue key outside the five.
C5_RejectStep ==
    (done' # done /\ done'.req.kind = "issue" /\ done'.req.issue_key \notin FiveIssueKeys) =>
        /\ UNCHANGED store
        /\ done'.resp.code \in {400, 503}
        /\ pc' = pc

C5_NoInvalidKeyInside ==
    /\ \A p \in Workers : req[p].kind = "issue" => req[p].issue_key \in FiveIssueKeys
    /\ \A i \in 1..Len(qc_event_log) :
          qc_event_log[i].event_type = "ISSUE_CHANGE" =>
              DOMAIN qc_event_log[i].issues_snapshot \subseteq FiveIssueKeys
    /\ \A did \in DOMAIN qc_current_state :
          DOMAIN Get(qc_current_state[did].data, "issues", <<>>) \subseteq FiveIssueKeys

C5_InvalidKeyNoMutation == [][C5_RejectStep]_vars /\ []C5_NoInvalidKeyInside

\* An invalid key was rejected with 400 on a store that already holds state
C5_Witness ==
    /\ done.req.kind = "issue" /\ done.req.issue_key \notin FiveIssueKeys
    /\ done.resp.code = 400
    /\ qc_event_log # <<>> /\ qc_current_state # <<>>

\* C6: a worker without a store client (read-only mode) answers every
\* toggle_status and toggle_issue with 503 in one step that leaves the
\* current-state store and the event log as they were, and never runs a
\* transaction.
C6_RejectStep ==
    (done' # done /\ done'.req.kind \in {"status", "issue"}
     /\ fs_client'[done'.worker] = "none") =>
        /\ done'.resp.code = 503
        /\ UNCHANGED store
        /\ pc' = pc

C6_NoTransaction ==
    \A p \in Workers : fs_client[p] = "none" => (pc[p] = "idle" /\ req[p] = NoReq)

C6_ReadOnlyNoSideEffect == [][C6_RejectStep]_vars /\ []C6_NoTransaction

\* A read-only worker refused a toggle while the store holds another worker's
\* writes
C6_Witness ==
    /\ done.req.kind \in {"status", "issue"} /\ done.resp.code = 503
    /\ fs_client[done.worker] = "none"
    /\ qc_event_log # <<>>
\* ========================================================= read-path claims
\* The last finished exchange is a get_images that returned a page
ImagesReturned == done.req.kind = "images" /\ done.resp.code = 200

\* The catalog rows the last get_images received
DoneRows == Query(Table(done.req.table), done.req.page)

\* The populated image slots of a product on those rows
PopulatedSlots(pvid) ==
    {idx \in 1..10 : \E i \in 1..Len(DoneRows) :
        DoneRows[i].product_variant_id = pvid /\ DoneRows[i].image_url[idx] # None}

ToggledToReviewed(pvid, idx) ==
    \E i \in 1..Len(qc_event_log) :
        /\ qc_event_log[i].event_type = "STATUS_CHANGE"
        /\ qc_event_log[i].product_variant_id = pvid
        /\ qc_event_log[i].image_index = idx
        /\ qc_event_log[i].new_status = "REVIEWED"

\* C7: every product returned by get_images carries one image per populated
\* slot, and its pvid_review_status is REVIEWED iff it has at least one
\* populated slot and every image's merged review_status is REVIEWED,
\* NOT_REVIEWED otherwise; a REVIEWED product has had every populated slot
\* toggled to REVIEWED.
C7_AggregateStatus ==
    ImagesReturned =>
        \A n \in 1..Len(done.resp.items) :
            LET it == done.resp.items[n]
                slots == PopulatedSlots(it.product_variant_id)
                allReviewed == \A m \in 1..Len(it.images) :
                                   it.images[m].review_status = "REVIEWED"
            IN  /\ Len(it.images) = Cardinality(slots)
                /\ {it.images[m].image_index : m \in 1..Len(it.images)} = slots
                /\ it.pvid_review_status =
                      IF slots # {} /\ allReviewed THEN "REVIEWED" ELSE "NOT_REVIEWED"
                /\ it.pvid_review_status = "REVIEWED" =>
                      \A idx \in slots : ToggledToReviewed(it.product_variant_id, idx)

\* A page with a three-slot product that is REVIEWED and a product without
\* slots that is not
C7_Witness ==
    /\ ImagesReturned
    /\ \E n \in 1..Len(done.resp.items) :
          /\ Len(done.resp.items[n].images) = 3
          /\ done.resp.items[n].pvid_review_status = "REVIEWED"
    /\ \E n \in 1..Len(done.resp.items) :
          /\ done.resp.items[n].images = <<>>
          /\ done.resp.items[n].pvid_review_status = "NOT_REVIEWED"

\* C8: get_images with status=REVIEWED returns only products whose computed
\* pvid_review_status is REVIEWED, with status=NOT_REVIEWED only products
\* whose computed status is not REVIEWED, and with status absent or All one
\* item for every product of the catalog page.
C8_StatusFilter ==
    ImagesReturned =>
        LET items == done.resp.items
            status == done.req.status
        IN  /\ status = Some("REVIEWED") =>
                  \A n \in 1..Len(items) : items[n].pvid_review_status = "REVIEWED"
            /\ status = Some("NOT_REVIEWED") =>
                  \A n \in 1..Len(items) : items[n].pvid_review_status # "REVIEWED"
            /\ status \in {None, Some("All")} =>
                  /\ {items[n].product_variant_id : n \in 1..Len(items)} =
                        {DoneRows[i].product_variant_id : i \in 1..Len(DoneRows)}
                  /\ \A n, m \in 1..Len(items) :
                        items[n].product_variant_id = items[m].product_variant_id => n = m

\* status=REVIEWED kept the reviewed product of a two-row page and dropped
\* the other
C8_Witness ==
    /\ ImagesReturned
    /\ done.req.status = Some("REVIEWED")
    /\ Len(DoneRows) = 2
    /\ Len(done.resp.items) = 1

DefaultImage(img) ==
    /\ img.review_status = "NOT_REVIEWED"
    /\ \A k \in FiveIssueKeys : img.issues[k] = FALSE
    /\ img.updated_by = None
    /\ img.updated_at = None

\* C9: when the batched review-state lookup raises, get_images still returns
\* successfully and every image of the page is merged with the default state.
C9_LookupFailureDefaults ==
    (done.req.kind = "images" /\ done.req.bq_ok /\ done.req.raised) =>
        /\ done.resp.code = 200
        /\ \A n \in 1..Len(done.resp.items) :
              \A m \in 1..Len(done.resp.items[n].images) :
                  DefaultImage(done.resp.items[n].images[m])
\* ========================================================= pipeline claims
\* The step is one invocation of the trigger
Invoked == ninvocations' # ninvocations

NoDocument(data) == "value" \notin DOMAIN data \/ "fields" \notin DOMAIN data.value

Decodable(data) ==
    /\ "value" \in DOMAIN data
    /\ "fields" \in DOMAIN data.value
    /\ DOMAIN data.value.fields # {}
    /\ ~DocumentRaises(data.value)

\* C10 as stated: an invocation whose payload has no 'value' key, or whose
\* document has no 'fields', returns without error.
C10_Original ==
    (invocation.outcome # "none" /\ NoDocument(invocation.data)) =>
        invocation.outcome = "returned"

\* C10 (amended): with the sink client initialised, an invocation whose
\* payload carries a decodable document and whose insert reports no error
\* appends exactly one row, the document's, to the sink and returns; one
\* whose payload has no 'value' key or whose document has no 'fields' inserts
\* no row and returns without error. Without the sink client every
\* invocation raises and inserts no row.
C10_Step ==
    Invoked =>
        LET data == invocation'.data
        IN  /\ (bq_client = "client" /\ Decodable(data) /\ ~invocation'.errors) =>
                  /\ Len(sink') = Len(sink) + 1
                  /\ SubSeq(sink', 1, Len(sink)) = sink
                  /\ sink'[Len(sink')].event_id = PyStr(data.value.fields.event_id.stringValue)
                  /\ invocation'.outcome = "returned"
            /\ (bq_client = "client" /\ NoDocument(data)) =>
                  /\ sink' = sink
                  /\ invocation'.outcome = "returned"
            /\ bq_client = "none" =>
                  /\ sink' = sink
                  /\ invocation'.outcome = "raised"

C10_TriggerOutcome == [][C10_Step]_vars

\* After a row was inserted, a notification without 'value' was skipped
C10_Witness ==
    /\ bq_client = "client"
    /\ Len(sink) = 1
    /\ invocation.outcome = "returned"
    /\ "value" \notin DOMAIN invocation.data

\* C11: an invocation that reaches the insert and gets errors back, or whose
\* decoding raises, ends with an error and adds no row; an invocation that
\* returns normally on a decodable document has appended that document's row.
C11_Step ==
    Invoked =>
        LET data == invocation'.data
        IN  /\ (bq_client = "client" /\ Decodable(data) /\ invocation'.errors) =>
                  /\ invocation'.outcome = "raised"
                  /\ sink' = sink
            /\ (bq_client = "client" /\ "value" \in DOMAIN data /\ DocumentRaises(data.value)) =>
                  /\ invocation'.outcome = "raised"
                  /\ sink' = sink
            /\ (Decodable(data) /\ invocation'.outcome = "returned") =>
                  sink' = Append(sink, transform_to_bq_row(parse_firestore_document(data.value)))

C11_FailurePropagated == [][C11_Step]_vars

\* An insert that reported errors ended the invocation with an error, after
\* an earlier invocation had inserted a row
C11_Witness ==
    /\ bq_client = "client"
    /\ invocation.outcome = "raised"
    /\ invocation.errors
    /\ Decodable(invocation.data)
    /\ Len(sink) = 1

\* The event with this id is in qc_event_log / has a row in the sink
Committed(id) == \E i \in 1..Len(qc_event_log) : qc_event_log[i].event_id = id

InSink(id) == \E k \in 1..Len(sink) : sink[k].event_id = PyStr("evt-" \o ToString(id))

\* C12: under redelivery, every committed event eventually has at least one
\* row with its event_id in the sink, and no step removes or changes a row
\* of the sink (duplicates included).
C12_Replicated == \A id \in 1..MaxReplicated : Committed(id) ~> InSink(id)

C12_Kept ==
    [][Len(sink') >= Len(sink) /\ SubSeq(sink', 1, Len(sink)) = sink]_vars

C12_AtLeastOnce == C12_Replicated /\ C12_Kept

\* Two committed events are in the sink, one of them twice
C12_Witness ==
    /\ Len(qc_event_log) >= 2
    /\ \A i \in 1..Len(qc_event_log) : InSink(qc_event_log[i].event_id)
    /\ \E j, k \in 1..Len(sink) : j < k /\ sink[j].event_id = sink[k].event_id

\* ============================================================ codec claims
\* native is the native value of the tagged value: the integer is the one
\* whose decimal text the tag carries, map and array are unwrapped field by
\* field and element by element, anything else is null
RECURSIVE Unwrapped(_, _)
Unwrapped(value, native) ==
    IF "stringValue" \in DOMAIN value THEN native = PyStr(value.stringValue)
    ELSE IF "integerValue" \in DOMAIN value
         THEN native[1] = "int" /\ ToString(native[2]) = value.integerValue
    ELSE IF "doubleValue" \in DOMAIN value THEN native = PyFloat(value.doubleValue)
    ELSE IF "booleanValue" \in DOMAIN value THEN native = PyBool(value.booleanValue)
    ELSE IF "timestampValue" \in DOMAIN value THEN native = PyStr(value.timestampValue)
    ELSE IF "mapValue" \in DOMAIN value
         THEN LET fields == Get(value.mapValue, "fields", <<>>)
              IN  /\ native[1] = "dict"
                  /\ DOMAIN native[2] = DOMAIN fields
                  /\ \A k \in DOMAIN fields : Unwrapped(fields[k], native[2][k])
    ELSE IF "arrayValue" \in DOMAIN value
         THEN LET values == Get(value.arrayValue, "values", <<>>)
              IN  /\ native[1] = "list"
                  /\ Len(native[2]) = Len(values)
                  /\ \A i \in 1..Len(values) : Unwrapped(values[i], native[2][i])
    ELSE native = PyNone

\* C13: a decoded document has the fields of the tagged document, each the
\* native value of its tagged value (null for an untagged or unknown tag), and
\* the example document decodes to {a: "x", b: {c: 5}}.
C13_Codec ==
    codec_pc \in {"parsed", "row"} =>
        LET fields == Get(in_document, "fields", <<>>)
        IN  /\ DOMAIN out_parsed = DOMAIN fields
            /\ \A key \in DOMAIN fields : Unwrapped(fields[key], out_parsed[key])
            /\ in_document = ExampleDocument =>
                  out_parsed = [a |-> PyStr("x"), b |-> PyDict([c |-> PyInt(5)])]

\* The example document was decoded
C13_Witness ==
    /\ codec_pc = "parsed"
    /\ in_document = ExampleDocument
    /\ out_parsed.b = PyDict([c |-> PyInt(5)])

\* The destination columns
Columns ==
    {"event_id", "event_ts", "event_type", "actor", "product_variant_id", "image_index",
     "old_status", "new_status", "issue_key", "old_issue_value", "new_issue_value",
     "issues_snapshot", "source"}

\* C14: the row of a parsed document has exactly the 13 destination
\* columns; a column copied from the document carries the document's value,
\* null when the document lacks the field; source is the provenance tag;
\* issues_snapshot is the JSON text of the field when present, null when
\* absent; the snapshot {image_blur: true} becomes the text {"image_blur": true}.
C14_RowProjector ==
    codec_pc = "row" =>
        /\ DOMAIN out_row = Columns
        /\ Cardinality(Columns) = 13
        /\ \A c \in Columns \ {"issues_snapshot", "source"} :
              out_row[c] = IF c \in DOMAIN out_parsed THEN out_parsed[c] ELSE PyNone
        /\ out_row.source = PyStr("firestore_trigger")
        /\ out_row.issues_snapshot =
              IF "issues_snapshot" \in DOMAIN out_parsed
              THEN PyStr(json_dumps(out_parsed.issues_snapshot))
              ELSE PyNone
        /\ ("issues_snapshot" \in DOMAIN out_parsed
              /\ out_parsed.issues_snapshot = PyDict([image_blur |-> PyBool(TRUE)])) =>
                  out_row.issues_snapshot = PyStr("{\"image_blur\": true}")

\* The row of an ISSUE_CHANGE event: the snapshot as text, the status columns
\* null
C14_Witness ==
    /\ codec_pc = "row"
    /\ out_row.event_type = PyStr("ISSUE_CHANGE")
    /\ out_row.issues_snapshot = PyStr("{\"image_blur\": true}")
    /\ out_row.old_status = PyNone

\* ============================================================= role claims
\* C15: get_role answers every request with 200 and a role among viewer,
\* reviewer and admin, for the email asked; when the store is unavailable,
\* the lookup raised or the record is absent, the role is viewer and exists
\* is false.
C15_RoleFailSafe ==
    done.req.kind = "role" =>
        /\ done.resp.code = 200
        /\ done.resp.email = done.req.email
        /\ done.resp.role \in {"viewer", "reviewer", "admin"}
        /\ (\/ fs_client[done.worker] = "none"
            \/ done.req.raised
            \/ done.req.record = None) =>
                done.resp.role = "viewer" /\ done.resp.exists = FALSE

\* A lookup that raised on an admin's record was answered with viewer
C15_Witness ==
    /\ done.req.kind = "role"
    /\ done.req.raised
    /\ done.req.record = Some([role |-> "admin"])
    /\ done.resp.role = "viewer"
    /\ done.resp.exists = FALSE

\* =========================================================== paging claims
\* The number of rows the catalog query fetches for the page of the last
\* get_images: the rows of the table after the offset, at most 100
Fetched ==
    LET rest == Len(Table(done.req.table)) - (done.req.page - 1) * 100
    IN  IF rest < 0 THEN 0 ELSE IF rest > 100 THEN 100 ELSE rest

\* C16: in every response of get_images has_more is true exactly when the
\* catalog query fetched 100 rows for the page, whatever the status filter
\* left of them; page_size is 100.
C16_HasMore ==
    ImagesReturned =>
        /\ done.resp.has_more = (Fetched = 100)
        /\ done.resp.page_size = 100

\* A full page whose products were all dropped by the status filter still
\* reports has_more
C16_Witness ==
    /\ ImagesReturned
    /\ done.req.status = Some("REVIEWED")
    /\ Fetched = 100
    /\ done.resp.items = <<>>
    /\ done.resp.has_more

\* ============================================================ frame claims
\* The issues field of a document, the empty map when absent
IssuesOfDoc(coll, did) ==
    IF did \in DOMAIN coll THEN Get(coll[did].data, "issues", <<>>) ELSE <<>>

\* The documents other than did are as they were
OthersUnchanged(did) ==
    /\ DOMAIN qc_current_state' \ {did} = DOMAIN qc_current_state \ {did}
    /\ \A d \in DOMAIN qc_current_state \ {did} : qc_current_state'[d] = qc_current_state[d]

\* C17: a committing toggle_status leaves the issues map of its key as it
\* was; a committing toggle_issue leaves the review_status of its key as it
\* was (NOT_REVIEWED without prior state) and every issue key but the
\* requested one as it was; neither changes the document of another key.
C17_Step ==
    \A p \in Workers :
        LET did == DocIdOf(req[p])
        IN  /\ Commits(p, "status") =>
                  /\ IssuesOfDoc(qc_current_state', did) = IssuesOfDoc(qc_current_state, did)
                  /\ OthersUnchanged(did)
            /\ Commits(p, "issue") =>
                  /\ StatusOfDoc(qc_current_state', did) = StatusOfDoc(qc_current_state, did)
                  /\ \A k \in FiveIssueKeys \ {req[p].issue_key} :
                        IssueOfDoc(qc_current_state', did, k) = IssueOfDoc(qc_current_state, did, k)
                  /\ OthersUnchanged(did)

C17_Frame == [][C17_Step]_vars

\* An image is REVIEWED with a flag set while another image has state
C17_Witness ==
    /\ StatusOfDoc(qc_current_state, "P1__1") = "REVIEWED"
    /\ IssueOfDoc(qc_current_state, "P1__1", "image_blur")
    /\ "P1__2" \in DOMAIN qc_current_state

\* The ISSUE_CHANGE events on a document, in commit order
IssueChangesOf(did) ==
    SelectSeq(qc_event_log, LAMBDA e : DocIdOf(e) = did /\ e.event_type = "ISSUE_CHANGE")

\* C18: the event a committing toggle_issue appends carries the requested
\* key, the value stored for the key before the step (false when absent) as
\* old_issue_value, the requested value as new_issue_value, and as
\* issues_snapshot the issues map the step left in the key's document; the
\* snapshot of a document's latest ISSUE_CHANGE event is the document's
\* issues map.
C18_Step ==
    \A p \in Workers : Commits(p, "issue") =>
        LET did == DocIdOf(req[p])
            e == LastEvent(qc_event_log')
        IN  /\ AppendsOne
            /\ e.event_type = "ISSUE_CHANGE"
            /\ DocIdOf(e) = did
            /\ e.issue_key = req[p].issue_key
            /\ e.old_issue_value = IssueOfDoc(qc_current_state, did, req[p].issue_key)
            /\ e.new_issue_value = req[p].value
            /\ e.issues_snapshot = IssuesOfDoc(qc_current_state', did)

C18_LatestSnapshot ==
    \A did \in AllDocIds :
        LET changes == IssueChangesOf(did)
        IN  changes # <<>> =>
              changes[Len(changes)].issues_snapshot = IssuesOfDoc(qc_current_state, did)

C18_IssueEvent == [][C18_Step]_vars /\ []C18_LatestSnapshot

\* An event that cleared a flag while the other flag was set
C18_Witness ==
    \E i \in 1..Len(qc_event_log) :
        /\ qc_event_log[i].event_type = "ISSUE_CHANGE"
        /\ qc_event_log[i].old_issue_value = TRUE
        /\ qc_event_log[i].new_issue_value = FALSE
        /\ DOMAIN qc_event_log[i].issues_snapshot = {"image_blur", "cropped_image"}

\* C19: every step leaves each event record of the log as it was and at its
\* place (toggle, retry, read and replication steps alike), and no two
\* records of the log have the same event_id.
C19_Step ==
    /\ Len(qc_event_log') >= Len(qc_event_log)
    /\ \A i \in 1..Len(qc_event_log) : qc_event_log'[i] = qc_event_log[i]

C19_UniqueIds ==
    \A i, j \in 1..Len(qc_event_log) :
        i # j => qc_event_log[i].event_id # qc_event_log[j].event_id

C19_AppendOnly == [][C19_Step]_vars /\ []C19_UniqueIds

\* Two committed events, the first replicated, after a read
C19_Witness ==
    /\ Len(qc_event_log) = 2
    /\ nreads > 0
    /\ sink # <<>>
    /\ qc_event_log[1].event_id \in acked

\* C20: the events of a key, in the order they were committed, carry
\* non-decreasing event_ts, and the key's updated_at is not earlier than the
\* event_ts of any event committed on the key.
C20_CommitOrderTimestamps ==
    \A did \in AllDocIds :
        LET es == EventsOf(did)
        IN  /\ \A i, j \in 1..Len(es) : i < j => es[i].event_ts <= es[j].event_ts
            /\ \A i \in 1..Len(es) :
                  /\ did \in DOMAIN qc_current_state
                  /\ es[i].event_ts <= qc_current_state[did].data.updated_at

\* The last finished exchange is a toggle_issue with a key outside the five
InvalidKeyAnswered ==
    done.req.kind = "issue" /\ done.req.issue_key \notin FiveIssueKeys

\* C21 as stated: a toggle_issue request with a key outside the five fixed
\* keys is answered 400 in every state, also by a worker without a store
\* client.
C21_Original == InvalidKeyAnswered => done.resp.code = 400

\* C21: a toggle_issue request with a key outside the five fixed keys is
\* answered 400 by a worker that has a store client and 503 by a worker
\* without one.
C21_InvalidKeyAnswer ==
    InvalidKeyAnswered =>
        done.resp.code = IF fs_client[done.worker] = "none" THEN 503 ELSE 400

\* An invalid key was answered 400 while the other worker is read-only
C21_Witness ==
    /\ InvalidKeyAnswered
    /\ done.resp.code = 400
    /\ fs_client[done.worker] = "client"
    /\ \E q \in Workers : fs_client[q] = "none"

\* The last finished exchange is a get_images answered by a worker without a
\* store client
ReadOnlyImagesReturned == ImagesReturned /\ fs_client[done.worker] = "none"

\* C22: a get_images answered by a worker without a store client collects no
\* document key for the batch lookup (so none is issued and none can raise),
\* every image it returns carries the default state, and every product it
\* returns has pvid_review_status NOT_REVIEWED.
C22_ReadOnlyDefaults ==
    ReadOnlyImagesReturned =>
        /\ DocIds(DoneRows, fs_client[done.worker]) = {}
        /\ ~done.req.raised
        /\ \A n \in 1..Len(done.resp.items) :
              LET item == done.resp.items[n]
              IN  /\ item.pvid_review_status = "NOT_REVIEWED"
                  /\ \A m \in 1..Len(item.images) : DefaultImage(item.images[m])

\* A read-only worker returned an image whose stored state is REVIEWED
C22_Witness ==
    /\ ReadOnlyImagesReturned
    /\ \E n \in 1..Len(done.resp.items) :
          LET item == done.resp.items[n]
          IN  \E m \in 1..Len(item.images) :
                StatusOfDoc(qc_current_state,
                            get_firestore_doc_id(item.product_variant_id,
                                                 item.images[m].image_index)) = "REVIEWED"

\* C23: for every key, the stored review_status is the new_status of the
\* key's last committed STATUS_CHANGE event (NOT_REVIEWED when there is
\* none), the stored issues map is the issues_snapshot of its last committed
\* ISSUE_CHANGE event (empty when there is none), a document exists exactly
\* when the key has an event, and updated_by / updated_at are the actor /
\* event_ts of the key's last committed event of either type.
C23_Replay ==
    \A did \in AllDocIds :
        LET es == EventsOf(did)
            statuses == StatusEventsOf(did)
            changes == IssueChangesOf(did)
        IN  /\ StatusOfDoc(qc_current_state, did) =
                  IF statuses = <<>> THEN "NOT_REVIEWED"
                  ELSE statuses[Len(statuses)].new_status
            /\ IssuesOfDoc(qc_current_state, did) =
                  IF changes = <<>> THEN <<>>
                  ELSE changes[Len(changes)].issues_snapshot
            /\ (did \in DOMAIN qc_current_state) <=> (es # <<>>)
            /\ es # <<>> =>
                  /\ qc_current_state[did].data.updated_by = es[Len(es)].actor
                  /\ qc_current_state[did].data.updated_at = es[Len(es)].event_ts

\* A key with three events of both types by both workers, the last an
\* ISSUE_CHANGE on a REVIEWED image
C23_Witness ==
    \E did \in AllDocIds :
        LET es == EventsOf(did)
        IN  /\ Len(es) = 3
            /\ es[1].event_type = "STATUS_CHANGE"
            /\ es[2].event_type = "ISSUE_CHANGE"
            /\ es[3].event_type = "ISSUE_CHANGE"
            /\ es[2].issue_key # es[3].issue_key
            /\ es[2].actor # es[3].actor
            /\ StatusOfDoc(qc_current_state, did) = "REVIEWED"

\* A current-state document is well formed under its key
WellFormedDoc(did, data) ==
    /\ {"product_variant_id", "image_index", "review_status"} \subseteq DOMAIN data
    /\ data.review_status \in {"NOT_REVIEWED", "REVIEWED"}
    /\ did = get_firestore_doc_id(data.product_variant_id, data.image_index)
    /\ LET issues == Get(data, "issues", <<>>)
       IN  /\ DOMAIN issues \subseteq FiveIssueKeys
           /\ \A k \in DOMAIN issues : issues[k] \in BOOLEAN

\* C24: from the empty store, whatever toggle_status and toggle_issue
\* requests were served or rejected, every current-state document has a
\* review_status of NOT_REVIEWED or REVIEWED, an issues map over the five
\* fixed keys with boolean values and product_variant_id / image_index
\* fields that give its document key; no step removes a document.
C24_Docs ==
    \A did \in DOMAIN qc_current_state : WellFormedDoc(did, qc_current_state[did].data)

C24_NoDelete == DOMAIN qc_current_state \subseteq DOMAIN qc_current_state'

C24_WellFormed == []C24_Docs /\ [][C24_NoDelete]_vars

\* A REVIEWED document with a flag, after an invalid key was rejected
C24_Witness ==
    /\ InvalidKeyAnswered
    /\ \E did \in DOMAIN qc_current_state :
          /\ qc_current_state[did].data.review_status = "REVIEWED"
          /\ IssuesOfDoc(qc_current_state, did) # <<>>
====
